---- MODULE Spec2Model ----
(***************************************************************************)
(* A model of sshutil/sshclient.go: SSHClient.RunCommand, SSHClient.CopyFile*)
(* and SSHClient.CopyDir, together with the pieces of their environment    *)
(* that decide their behaviour: the local file tree filepath.Walk visits,  *)
(* the remote shell that interprets the command string of RunCommand, and  *)
(* the remote file system that `mkdir -p` and the file copy write to.      *)
(*                                                                         *)
(* Paths, names, commands and file contents are sequences of one-character *)
(* strings, so that path arithmetic and shell quoting are computed and not *)
(* assumed.                                                                *)
(***************************************************************************)
EXTENDS Integers, Sequences, FiniteSets, TLC

(***************************************************************************)
(* Bounds of the model.                                                    *)
(***************************************************************************)
\* how many calls of the public API the caller makes on one connection
MaxCalls == 2
\* how many outside events (a transport fault, a cancellation by the caller)
\* happen on one connection
MaxFaults == 1

(***************************************************************************)
(* Characters and strings.                                                 *)
(***************************************************************************)
\* the characters the model uses, in increasing byte order (sort.Strings in
\* readDirNames compares byte-wise)
CharOrder ==
    << "\n", " ", "'", "-", ".", "/", ";", "L", "a", "b", "c", "d", "e", "f",
       "g", "h", "i", "k", "l", "m", "o", "p", "r", "s", "t", "u" >>

Ord(c) == CHOOSE i \in DOMAIN CharOrder : CharOrder[i] = c

Sep == "/"
Dot == << "." >>
DotDot == << ".", "." >>

\* byte-wise lexicographic order on strings
RECURSIVE StrLess(_, _)
StrLess(s, t) ==
    IF t = << >> THEN FALSE
    ELSE IF s = << >> THEN TRUE
    ELSE IF Head(s) = Head(t) THEN StrLess(Tail(s), Tail(t))
    ELSE Ord(Head(s)) < Ord(Head(t))

\* strings.Join(elems, sep)
RECURSIVE StrJoin(_, _)
StrJoin(elems, sep) ==
    IF elems = << >> THEN << >>
    ELSE IF Len(elems) = 1 THEN Head(elems)
    ELSE Head(elems) \o sep \o StrJoin(Tail(elems), sep)

\* the elements of s between occurrences of the separator
RECURSIVE SplitFrom(_, _, _, _)
SplitFrom(s, sep, i, cur) ==
    IF i > Len(s) THEN << cur >>
    ELSE IF s[i] = sep THEN << cur >> \o SplitFrom(s, sep, i + 1, << >>)
    ELSE SplitFrom(s, sep, i + 1, Append(cur, s[i]))

Split(s, sep) == SplitFrom(s, sep, 1, << >>)

(***************************************************************************)
(* path/filepath (Unix): Clean, Join, Rel.                                 *)
(***************************************************************************)
\* the path elements Clean keeps: no empty element, no ".", ".." resolved
RECURSIVE CleanComps(_, _, _)
CleanComps(comps, rooted, out) ==
    IF comps = << >> THEN out
    ELSE LET c == Head(comps)
             r == Tail(comps)
         IN  IF c = << >> \/ c = Dot THEN CleanComps(r, rooted, out)
             ELSE IF c = DotDot
                  THEN IF out # << >> /\ out[Len(out)] # DotDot
                       THEN CleanComps(r, rooted, SubSeq(out, 1, Len(out) - 1))
                       ELSE IF rooted THEN CleanComps(r, rooted, out)
                       ELSE CleanComps(r, rooted, Append(out, DotDot))
                  ELSE CleanComps(r, rooted, Append(out, c))

IsRooted(p) == p # << >> /\ p[1] = Sep

Comps(p) == CleanComps(Split(p, Sep), IsRooted(p), << >>)

\* filepath.Clean
Clean(p) ==
    IF p = << >> THEN Dot
    ELSE LET body == StrJoin(Comps(p), << Sep >>)
         IN  IF IsRooted(p) THEN << Sep >> \o body
             ELSE IF body = << >> THEN Dot ELSE body

\* filepath.Join(a, b): empty elements are ignored, the rest is cleaned
JoinNoClean(a, b) ==
    IF a = << >> THEN b
    ELSE IF b = << >> THEN a
    ELSE a \o << Sep >> \o b

Join(a, b) ==
    IF a = << >> /\ b = << >> THEN << >>
    ELSE Clean(JoinNoClean(a, b))

\* the number of leading elements two element lists share
RECURSIVE CommonPrefix(_, _)
CommonPrefix(b, t) ==
    IF b = << >> \/ t = << >> THEN 0
    ELSE IF Head(b) = Head(t) THEN 1 + CommonPrefix(Tail(b), Tail(t))
    ELSE 0

\* filepath.Rel(basepath, targpath): [ok, path]

Rel(basepath, targpath) ==
    LET base == Clean(basepath)
        targ == Clean(targpath)
        bc == IF base = Dot THEN << >> ELSE Comps(base)
        tc == IF targ = Dot THEN << >> ELSE Comps(targ)
        n == CommonPrefix(bc, tc)
        brest == SubSeq(bc, n + 1, Len(bc))
        trest == SubSeq(tc, n + 1, Len(tc))
    IN  IF targ = base THEN [ok |-> TRUE, path |-> Dot]
        ELSE IF IsRooted(base) # IsRooted(targ)
             THEN [ok |-> FALSE, path |-> << >>]
        ELSE IF brest # << >> /\ Head(brest) = DotDot
             THEN [ok |-> FALSE, path |-> << >>]
        ELSE [ok |-> TRUE,
              path |-> StrJoin([i \in 1..Len(brest) |-> DotDot] \o trest,
                               << Sep >>)]

(***************************************************************************)
(* String constants.                                                       *)
(***************************************************************************)
Quote == "'"
Space == " "
Semi == ";"
Newline == "\n"

WMkdir == << "m", "k", "d", "i", "r" >>
WDashP == << "-", "p" >>
WEcho == << "e", "c", "h", "o" >>
WTrue == << "t", "r", "u", "e" >>
WFalse == << "f", "a", "l", "s", "e" >>

\* the command without -p
MkdirCmdNoP(dstPath) ==
    WMkdir \o << Space, Quote >> \o dstPath \o << Quote >>

\* fmt.Sprintf("mkdir -p '%s'", dstPath)
MkdirCmd(dstPath) ==
    WMkdir \o << Space >> \o WDashP \o << Space, Quote >> \o dstPath \o << Quote >>

(***************************************************************************)
(* The remote shell: how the command string of session.Output is read.     *)
(* Inside single quotes every character is literal up to the next quote;   *)
(* outside, a space ends a word and a semicolon or newline ends a command. *)
(***************************************************************************)
ShellStart ==
    [q |-> FALSE, w |-> << >>, has |-> FALSE, words |-> << >>, cmds |-> << >>,
     bad |-> FALSE]

EndWord(st) ==
    IF st.has
    THEN [st EXCEPT !.words = Append(@, st.w), !.w = << >>, !.has = FALSE]
    ELSE st

\* a semicolon with no command before it is a syntax error; a blank line is not
EndCmd(st, strict) ==
    IF st.words = << >>
    THEN [st EXCEPT !.bad = @ \/ strict]
    ELSE [st EXCEPT !.cmds = Append(@, st.words), !.words = << >>]

ShellStep(st, c) ==
    IF st.q
    THEN IF c = Quote THEN [st EXCEPT !.q = FALSE]
         ELSE [st EXCEPT !.w = Append(@, c)]
    ELSE IF c = Quote THEN [st EXCEPT !.q = TRUE, !.has = TRUE]
    ELSE IF c = Space THEN EndWord(st)
    ELSE IF c = Semi THEN EndCmd(EndWord(st), TRUE)
    ELSE IF c = Newline THEN EndCmd(EndWord(st), FALSE)
    ELSE [st EXCEPT !.w = Append(@, c), !.has = TRUE]

RECURSIVE ShellScan(_, _, _)
ShellScan(s, i, st) ==
    IF i > Len(s) THEN st ELSE ShellScan(s, i + 1, ShellStep(st, s[i]))

\* [ok, cmds]: the commands of the string, each a sequence of words; ok is
\* FALSE on a syntax error (an unterminated quote, an empty command)
ShellParse(s) ==
    LET st == ShellScan(s, 1, ShellStart)
        fin == EndCmd(EndWord(st), FALSE)
    IN  IF st.q \/ fin.bad THEN [ok |-> FALSE, cmds |-> << >>]
        ELSE [ok |-> TRUE, cmds |-> fin.cmds]

(***************************************************************************)
(* The remote file system: the directories, and the regular files with     *)
(* their content.  Paths are absolute and clean; "/" always exists and is  *)
(* the login directory.                                                    *)
(***************************************************************************)
RemoteAbs(p) == Clean(<< Sep >> \o p)

PathOf(comps) == << Sep >> \o StrJoin(comps, << Sep >>)

IsRemoteDir(fs, p) == p = << Sep >> \/ p \in fs.dirs

RemoteFileAt(fs, p) == {r \in fs.files : r.path = p}

IsRemoteFile(fs, p) == RemoteFileAt(fs, p) # {}

\* mkdir -p of one operand: every missing ancestor is created; it fails at
\* the first ancestor that exists and is not a directory
RECURSIVE MkdirFrom(_, _, _)
MkdirFrom(fs, comps, k) ==
    IF k > Len(comps) THEN [fs |-> fs, ok |-> TRUE]
    ELSE LET p == PathOf(SubSeq(comps, 1, k))
         IN  IF IsRemoteFile(fs, p) THEN [fs |-> fs, ok |-> FALSE]
             ELSE MkdirFrom([fs EXCEPT !.dirs = @ \cup {p}], comps, k + 1)

MkdirP(fs, arg) == MkdirFrom(fs, Comps(RemoteAbs(arg)), 1)

\* mkdir of one operand without -p: the directory must not exist and its
\* parent must
MkdirPlain(fs, arg) ==
    LET p == RemoteAbs(arg)
        c == Comps(p)
    IN  IF /\ c # << >>
           /\ ~IsRemoteDir(fs, p)
           /\ ~IsRemoteFile(fs, p)
           /\ IsRemoteDir(fs, PathOf(SubSeq(c, 1, Len(c) - 1)))
        THEN [fs |-> [fs EXCEPT !.dirs = @ \cup {p}], ok |-> TRUE]
        ELSE [fs |-> fs, ok |-> FALSE]

RECURSIVE MkdirAll(_, _, _, _)
MkdirAll(fs, args, parents, code) ==
    IF args = << >> THEN [fs |-> fs, code |-> code, out |-> << >>]
    ELSE LET r == IF parents THEN MkdirP(fs, Head(args))
                  ELSE MkdirPlain(fs, Head(args))
         IN  MkdirAll(r.fs, Tail(args), parents, IF r.ok THEN code ELSE 1)

\* one simple command: [fs, code, out]
RunWords(fs, words) ==
    IF Head(words) = WMkdir
    THEN LET parents == Len(words) >= 2 /\ words[2] = WDashP
             args == SubSeq(words, IF parents THEN 3 ELSE 2, Len(words))
         IN  IF args = << >> THEN [fs |-> fs, code |-> 1, out |-> << >>]
             ELSE MkdirAll(fs, args, parents, 0)
    ELSE IF Head(words) = WEcho
    THEN [fs |-> fs, code |-> 0,
          out |-> StrJoin(Tail(words), << Space >>) \o << Newline >>]
    ELSE IF Head(words) = WTrue THEN [fs |-> fs, code |-> 0, out |-> << >>]
    ELSE IF Head(words) = WFalse THEN [fs |-> fs, code |-> 1, out |-> << >>]
    ELSE [fs |-> fs, code |-> 127, out |-> << >>]

\* a list of commands: the status is that of the last one
RECURSIVE RunList(_, _, _, _)
RunList(fs, cmds, code, out) ==
    IF cmds = << >> THEN [fs |-> fs, code |-> code, out |-> out]
    ELSE LET r == RunWords(fs, Head(cmds))
         IN  RunList(r.fs, Tail(cmds), r.code, out \o r.out)

\* what the remote shell does with a command string: [fs, code, out]
RemoteShell(fs, cmd) ==
    LET p == ShellParse(cmd)
    IN  IF p.ok THEN RunList(fs, p.cmds, 0, << >>)
        ELSE [fs |-> fs, code |-> 2, out |-> << >>]

\* opening a remote file for writing: it is created, or truncated when it
\* exists; its directory must exist and the path must not be a directory
CanCreate(fs, path) ==
    LET c == Comps(RemoteAbs(path))
    IN  /\ c # << >>
        /\ ~IsRemoteDir(fs, RemoteAbs(path))
        /\ IsRemoteDir(fs, PathOf(SubSeq(c, 1, Len(c) - 1)))

RemoteWrite(fs, path, data) ==
    LET p == RemoteAbs(path)
    IN  [fs EXCEPT !.files = (@ \ RemoteFileAt(fs, p))
                             \cup {[path |-> p, data |-> data]}]

(***************************************************************************)
(* Error values.  An error carries what the Go error of that call carries: *)
(* its kind, the local path for an *os.PathError (Lstat, readdir, Open),   *)
(* the exit status for an *ssh.ExitError.  CopyFile and CopyDir return the  *)
(* error of the failing call as it is, so the remote path of an error is   *)
(* always empty.                                                           *)
(***************************************************************************)
MkErr(kind, lpath, code) ==
    [kind |-> kind, local |-> lpath, remote |-> << >>, code |-> code]

NilErr == MkErr("nil", << >>, 0)

(***************************************************************************)
(* The local file tree.  Nodes are the places of a tree template; an       *)
(* entry says whether the place is taken and by what.                      *)
(***************************************************************************)
Node == {"root", "a", "b", "f", "g", "e"}

Slot == Node \ {"root"}

ParentOf ==
    [root |-> "root", a |-> "root", e |-> "root", b |-> "a", f |-> "a",
     g |-> "b"]

BaseName ==
    [root |-> << >>, a |-> << "a" >>, b |-> << "b" >>, f |-> << "f" >>,
     g |-> << "g" >>, e |-> << "e" >>]

Hi == << "h", "i" >>
Old == << "u" >>

Entry(kind, name, data, readable, target) ==
    [present |-> TRUE, kind |-> kind, name |-> name, data |-> data,
     readable |-> readable, target |-> target]

Absent ==
    [present |-> FALSE, kind |-> "file", name |-> << >>, data |-> << >>,
     readable |-> FALSE, target |-> "none"]

\* the tree shapes: a place is taken only if its parent is
Shapes ==
    {S \in SUBSET Slot : \A s \in S : ParentOf[s] = "root" \/ ParentOf[s] \in S}

Leaves(S) == {s \in S : ~\E c \in S : ParentOf[c] = s}

KindVars ==
    {"dir", "file", "empty", "symfile", "symdir", "dangling", "noreadfile",
     "noreaddir"}
NameVars == {"apos", "twoapos", "space"}
RootVars == {"rootmissing", "rootfile", "rootnoread"}
PathVars == {"localpath", "remotepath"}
RemoteVars == {"partial", "conflictfile", "conflictdir", "stray"}

Plain == [what |-> "none", slot |-> "root"]

\* the departures from the plain tree of a shape: one entry of another kind
\* or name, another root, other path arguments, another remote side
Variants(S) ==
    {[what |-> w, slot |-> s] : w \in KindVars, s \in Leaves(S)}
    \cup {[what |-> w, slot |-> s] : w \in NameVars, s \in S}
    \cup {[what |-> w, slot |-> "root"] :
              w \in RootVars \cup PathVars \cup RemoteVars}

\* the inputs: every shape as a plain tree, and the full tree with one
\* departure
Inputs ==
    {[shape |-> S, var |-> Plain] : S \in Shapes}
    \cup {[shape |-> Slot, var |-> v] : v \in Variants(Slot)}

AltName(what) ==
    IF what = "apos" THEN << "i", "'", "s", " ", "m" >>
    ELSE IF what = "twoapos" THEN << "c", "'", "d", "'" >>
    ELSE << "c", " ", "d" >>

KindEntry(what, name) ==
    IF what = "dir" THEN Entry("dir", name, << >>, TRUE, "none")
    ELSE IF what = "file" THEN Entry("file", name, Hi, TRUE, "none")
    ELSE IF what = "empty" THEN Entry("file", name, << >>, TRUE, "none")
    ELSE IF what = "symfile" THEN Entry("symlink", name, Hi, TRUE, "file")
    ELSE IF what = "symdir" THEN Entry("symlink", name, << >>, TRUE, "dir")
    ELSE IF what = "dangling" THEN Entry("symlink", name, << >>, TRUE, "none")
    ELSE IF what = "noreadfile" THEN Entry("file", name, Hi, FALSE, "none")
    ELSE Entry("dir", name, << >>, FALSE, "none")

BaseKind(s) ==
    IF s \in {"a", "b", "e"} THEN "dir" ELSE IF s = "f" THEN "file" ELSE "empty"

MkEntry(s, S, v) ==
    IF s = "root"
    THEN IF v.what = "rootmissing" THEN Absent
         ELSE IF v.what = "rootfile" THEN KindEntry("file", << >>)
         ELSE IF v.what = "rootnoread" THEN KindEntry("noreaddir", << >>)
         ELSE KindEntry("dir", << >>)
    ELSE IF s \notin S \/ v.what \in {"rootmissing", "rootfile"} THEN Absent
    ELSE LET name == IF v.slot = s /\ v.what \in NameVars
                     THEN AltName(v.what) ELSE BaseName[s]
         IN  IF v.slot = s /\ v.what \in KindVars
             THEN KindEntry(v.what, name)
             ELSE KindEntry(BaseKind(s), name)

MkLocal(S, v) == [s \in Node |-> MkEntry(s, S, v)]

PlainLocalPath == << "L" >>
PlainRemotePath == << "/", "r" >>

MkLocalPath(v) ==
    IF v.what = "localpath" THEN << ".", "/", "L", "/" >> ELSE PlainLocalPath

MkRemotePath(v) ==
    IF v.what = "remotepath" THEN << "/", "t", "/", "/", "d", "/" >>
    ELSE PlainRemotePath

RA == << "/", "r", "/", "a" >>
RAF == << "/", "r", "/", "a", "/", "f" >>
RX == << "/", "r", "/", "x" >>
RXK == << "/", "r", "/", "x", "/", "k" >>

\* the remote file system the connection finds
MkRemote(v) ==
    IF v.what = "partial"
    THEN [dirs |-> {PlainRemotePath, RA},
          files |-> {[path |-> RAF, data |-> Old]}]
    ELSE IF v.what = "conflictfile"
    THEN [dirs |-> {PlainRemotePath}, files |-> {[path |-> RA, data |-> Old]}]
    ELSE IF v.what = "conflictdir"
    THEN [dirs |-> {PlainRemotePath, RA, RAF}, files |-> {}]
    ELSE IF v.what = "stray"
    THEN [dirs |-> {PlainRemotePath, RX},
          files |-> {[path |-> RXK, data |-> Old]}]
    ELSE [dirs |-> {}, files |-> {}]

\* the commands the caller runs with RunCommand on its own
TopCmds == { WEcho \o << Space, "a", Semi >> \o WFalse }

VARIABLES
    localPath,        \* CopyDir's localPath argument
    remotePath,       \* CopyDir's remotePath argument
    local,            \* the local file tree
    remote,           \* the remote file system
    pc,               \* where the caller's goroutine is
    stack,            \* filepath.Walk: the entries still to visit, in order
    cur,              \* the entry the walk callback is visiting
    dstPath,          \* the callback's dstPath
    err,              \* the callback's err, shared with the copy goroutine
    wg,               \* the callback's WaitGroup counter
    wpc,              \* where the copy goroutine is
    defers,           \* CopyFile's deferred closes, last registered first
    cfRes,            \* CopyFile's return value
    rc,               \* RunCommand's frame: command, caller, session, result
    sessions,         \* the sessions open on the connection
    srcOpen,          \* the local files open
    dstOpen,          \* the remote files open for writing
    result,           \* CopyDir's return value
    calls,            \* the API calls made so far
    faults,           \* the outside events so far
    faulted,          \* a transport fault was injected in the current call
    log,              \* the remote operations of the current CopyDir call
    last,             \* the call that returned last: operation, result, remote
    cancelRequested   \* the caller asked the running CopyDir to stop

vars ==
    << localPath, remotePath, local, remote, pc, stack, cur, dstPath, err, wg,
       wpc, defers, cfRes, rc, sessions, srcOpen, dstOpen, result, calls,
       faults, faulted, log, last, cancelRequested >>

NoEntry == [node |-> "root", path |-> << >>, names |-> << >>]

NoRc ==
    [cmd |-> << >>, caller |-> "none", opened |-> FALSE, out |-> << >>,
     err |-> NilErr]

Init ==
    /\ \E in \in Inputs :
          /\ local = MkLocal(in.shape, in.var)
          /\ localPath = MkLocalPath(in.var)
          /\ remotePath = MkRemotePath(in.var)
          /\ remote = MkRemote(in.var)
    /\ pc = "idle"
    /\ stack = << >>
    /\ cur = NoEntry
    /\ dstPath = << >>
    /\ err = NilErr
    /\ wg = 0
    /\ wpc = "none"
    /\ defers = << >>
    /\ cfRes = NilErr
    /\ rc = NoRc
    /\ sessions = 0
    /\ srcOpen = 0
    /\ dstOpen = 0
    /\ result = NilErr
    /\ calls = 0
    /\ faults = 0
    /\ faulted = FALSE
    /\ log = << >>
    /\ last = [op |-> "none", err |-> NilErr, out |-> << >>, remote |-> remote,
               faulted |-> FALSE]
    /\ cancelRequested = FALSE

(***************************************************************************)
(* The local file system calls.                                            *)
(***************************************************************************)
Children(n) == {c \in Slot : local[c].present /\ ParentOf[c] = n}

\* readDirNames: the names of a directory, sorted
RECURSIVE SortNodes(_)
SortNodes(S) ==
    IF S = {} THEN << >>
    ELSE LET m == CHOOSE x \in S :
                      \A y \in S \ {x} : StrLess(local[x].name, local[y].name)
         IN  << m >> \o SortNodes(S \ {m})

ReadDirNames(n) == SortNodes(Children(n))

\* os.FileInfo.IsDir of os.Lstat: a symbolic link is not a directory
IsDir(n) == local[n].kind = "dir"

\* os.Open follows a symbolic link
CanOpen(n) ==
    IF local[n].kind = "symlink" THEN local[n].target # "none"
    ELSE local[n].readable

\* reading what os.Open opened fails on a directory
CanRead(n) == ~(local[n].kind = "symlink" /\ local[n].target = "dir")

Prefixes(d) == {SubSeq(d, 1, k) : k \in 0..Len(d)}

LogEv(ev, kind, e, dst, ok) ==
    [ev |-> ev, kind |-> kind, node |-> e.node, lpath |-> e.path, dst |-> dst,
     ok |-> ok]

InCopyDir ==
    \/ pc \in {"walk", "visit", "wait", "ret"}
    \/ pc \in {"rc_new", "rc_out", "rc_defer", "rc_ret"} /\ rc.caller = "CopyDir"

(***************************************************************************)
(* The caller.                                                             *)
(***************************************************************************)
CallCopyDir ==
    /\ pc = "idle"
    /\ calls < MaxCalls
    /\ calls' = calls + 1
    /\ pc' = "walk"
    /\ log' = << >>
    /\ faulted' = FALSE
    /\ cancelRequested' = FALSE
    /\ result' = NilErr
    /\ err' = NilErr
    /\ UNCHANGED << localPath, remotePath, local, remote, stack, cur, dstPath,
                    wg, wpc, defers, cfRes, rc, sessions, srcOpen, dstOpen,
                    faults, last >>

CallRunCommand ==
    /\ pc = "idle"
    /\ calls < MaxCalls
    /\ calls' = calls + 1
    /\ \E c \in TopCmds : rc' = [NoRc EXCEPT !.cmd = c, !.caller = "top"]
    /\ pc' = "rc_new"
    /\ faulted' = FALSE
    /\ UNCHANGED << localPath, remotePath, local, remote, stack, cur, dstPath,
                    err, wg, wpc, defers, cfRes, sessions, srcOpen, dstOpen,
                    result, faults, log, last, cancelRequested >>

\* the caller's cancellation signal; CopyDir has no parameter that carries it
Cancel ==
    /\ pc = "visit"
    /\ stack # << >>
    /\ ~cancelRequested
    /\ faults < MaxFaults
    /\ faults' = faults + 1
    /\ cancelRequested' = TRUE
    /\ UNCHANGED << localPath, remotePath, local, remote, pc, stack, cur,
                    dstPath, err, wg, wpc, defers, cfRes, rc, sessions, srcOpen,
                    dstOpen, result, calls, faulted, log, last >>

(***************************************************************************)
(* RunCommand.                                                             *)
(***************************************************************************)
\* c.client.NewSession(); defer session.Close()
RcNewSession ==
    /\ pc = "rc_new"
    /\ \/ /\ sessions' = sessions + 1
          /\ rc' = [rc EXCEPT !.opened = TRUE]
          /\ pc' = "rc_out"
          /\ UNCHANGED << faults, faulted >>
       \/ /\ faults < MaxFaults
          /\ faults' = faults + 1
          /\ faulted' = TRUE
          /\ rc' = [rc EXCEPT !.err = MkErr("connection", << >>, 0)]
          /\ pc' = "rc_ret"
          /\ UNCHANGED sessions
    /\ UNCHANGED << localPath, remotePath, local, remote, stack, cur, dstPath,
                    err, wg, wpc, defers, cfRes, srcOpen, dstOpen, result,
                    calls, log, last, cancelRequested >>

\* what RunCommand returns for the shell's answer: the output is returned
\* only with a nil error
OutputResult(r) ==
    IF r.code = 0 THEN [out |-> r.out, err |-> NilErr]
    ELSE [out |-> << >>, err |-> MkErr("exit", << >>, r.code)]

\* session.Output(command)
RcOutput ==
    /\ pc = "rc_out"
    /\ LET r == RemoteShell(remote, rc.cmd)
       IN  \/ /\ remote' = r.fs
              /\ rc' = [rc EXCEPT !.out = OutputResult(r).out,
                                  !.err = OutputResult(r).err]
              /\ UNCHANGED << faults, faulted >>
           \/ /\ faults < MaxFaults
              /\ faults' = faults + 1
              /\ faulted' = TRUE
              /\ remote' \in {remote, r.fs}
              /\ rc' = [rc EXCEPT !.err = MkErr("transport", << >>, 0)]
    /\ pc' = "rc_defer"
    /\ UNCHANGED << localPath, remotePath, local, stack, cur, dstPath, err, wg,
                    wpc, defers, cfRes, sessions, srcOpen, dstOpen, result,
                    calls, log, last, cancelRequested >>

\* the session closed on the success path only
RcCloseLeaky ==
    /\ pc = "rc_defer"
    /\ sessions' = IF rc.err = NilErr THEN sessions - 1 ELSE sessions
    /\ pc' = "rc_ret"
    /\ UNCHANGED << localPath, remotePath, local, remote, stack, cur, dstPath,
                    err, wg, wpc, defers, cfRes, rc, srcOpen, dstOpen, result,
                    calls, faults, faulted, log, last, cancelRequested >>

\* the deferred session.Close(), then the return
RcClose ==
    /\ pc = "rc_defer"
    /\ sessions' = sessions - 1
    /\ pc' = "rc_ret"
    /\ UNCHANGED << localPath, remotePath, local, remote, stack, cur, dstPath,
                    err, wg, wpc, defers, cfRes, rc, srcOpen, dstOpen, result,
                    calls, faults, faulted, log, last, cancelRequested >>

\* RunCommand has returned to the caller of the API
RunCommandReturn ==
    /\ pc = "rc_ret"
    /\ rc.caller = "top"
    /\ last' = [op |-> "RunCommand", err |-> rc.err, out |-> rc.out,
                remote |-> remote, faulted |-> faulted]
    /\ pc' = "idle"
    /\ UNCHANGED << localPath, remotePath, local, remote, stack, cur, dstPath,
                    err, wg, wpc, defers, cfRes, rc, sessions, srcOpen, dstOpen,
                    result, calls, faults, faulted, log, cancelRequested >>

(***************************************************************************)
(* CopyDir: filepath.Walk and its callback.                                *)
(***************************************************************************)
\* the walk starting at the entries of the root instead of the root itself
WalkRootSkipsRoot ==
    /\ pc = "walk"
    /\ IF local["root"].present
       THEN /\ stack' = IF IsDir("root") /\ local["root"].readable
                         THEN [i \in 1..Len(ReadDirNames("root")) |->
                                  [node |-> ReadDirNames("root")[i],
                                   path |-> Join(localPath,
                                              local[ReadDirNames("root")[i]].name)]]
                         ELSE << [node |-> "root", path |-> localPath] >>
            /\ pc' = "visit"
            /\ UNCHANGED result
       ELSE /\ result' = MkErr("lstat", localPath, 0)
            /\ pc' = "ret"
            /\ UNCHANGED stack
    /\ UNCHANGED << localPath, remotePath, local, remote, cur, dstPath, err, wg,
                    wpc, defers, cfRes, rc, sessions, srcOpen, dstOpen, calls,
                    faults, faulted, log, last, cancelRequested >>

\* filepath.Walk: os.Lstat(root); on an error the callback is called with
\* it and returns it
WalkRoot ==
    /\ pc = "walk"
    /\ IF local["root"].present
       THEN /\ stack' = << [node |-> "root", path |-> localPath] >>
            /\ pc' = "visit"
            /\ UNCHANGED result
       ELSE /\ result' = MkErr("lstat", localPath, 0)
            /\ pc' = "ret"
            /\ UNCHANGED stack
    /\ UNCHANGED << localPath, remotePath, local, remote, cur, dstPath, err, wg,
                    wpc, defers, cfRes, rc, sessions, srcOpen, dstOpen, calls,
                    faults, faulted, log, last, cancelRequested >>

\* the remote path of an entry, joined without filepath.Join's cleaning
DstPathNoClean(lroot, rroot, path) == JoinNoClean(rroot, Rel(lroot, path).path)

\* the remote path of an entry: filepath.Rel, then filepath.Join
DstPath(lroot, rroot, path) == Join(rroot, Rel(lroot, path).path)

\* the walk takes the next entry and calls the callback, which runs up to
\* the call of RunCommand or up to the start of the copy goroutine
Visit ==
    /\ pc = "visit"
    /\ IF stack = << >>
       THEN /\ result' = NilErr
            /\ pc' = "ret"
            /\ UNCHANGED << stack, cur, dstPath, err, wg, wpc, rc, log >>
       ELSE LET e == Head(stack)
                names == IF IsDir(e.node) THEN ReadDirNames(e.node) ELSE << >>
                ent == [node |-> e.node, path |-> e.path, names |-> names]
                dst == DstPath(localPath, remotePath, e.path)
            IN  IF IsDir(e.node) /\ ~local[e.node].readable
                THEN /\ result' = MkErr("readdir", e.path, 0)
                     /\ pc' = "ret"
                     /\ stack' = << >>
                     /\ UNCHANGED << cur, dstPath, err, wg, wpc, rc, log >>
                ELSE IF ~Rel(localPath, e.path).ok
                THEN /\ result' = MkErr("rel", << >>, 0)
                     /\ pc' = "ret"
                     /\ stack' = << >>
                     /\ UNCHANGED << cur, dstPath, err, wg, wpc, rc, log >>
                ELSE /\ stack' = Tail(stack)
                     /\ cur' = ent
                     /\ dstPath' = dst
                     /\ err' = NilErr
                     /\ IF IsDir(e.node)
                        THEN /\ rc' = [NoRc EXCEPT !.cmd = MkdirCmd(dst),
                                                   !.caller = "CopyDir"]
                             /\ pc' = "rc_new"
                             /\ log' = Append(log,
                                           LogEv("begin", "mkdir", ent, dst, TRUE))
                             /\ UNCHANGED << wg, wpc >>
                        ELSE /\ wg' = 1
                             /\ wpc' = "cf_open"
                             /\ pc' = "wait"
                             /\ log' = Append(log,
                                           LogEv("begin", "copy", ent, dst, TRUE))
                             /\ UNCHANGED rc
                     /\ UNCHANGED result
    /\ UNCHANGED << localPath, remotePath, local, remote, defers, cfRes,
                    sessions, srcOpen, dstOpen, calls, faults, faulted, last,
                    cancelRequested >>

\* the entries of the directory just visited, to be walked next
ChildEntries(e) ==
    [i \in 1..Len(e.names) |->
        [node |-> e.names[i], path |-> Join(e.path, local[e.names[i]].name)]]

\* if err != nil { return err } after RunCommand
MkdirFailedNever(e) == FALSE

MkdirFailed(e) == e # NilErr

\* if err != nil { return err } after wg.Wait()
CopyFailedNever(e) == FALSE

CopyFailed(e) == e # NilErr

\* a failed mkdir tried again instead of returned
AfterMkdirRetry ==
    /\ pc = "rc_ret"
    /\ rc.caller = "CopyDir"
    /\ err' = rc.err
    /\ log' = Append(log, LogEv("end", "mkdir", cur, dstPath, rc.err = NilErr))
    /\ IF MkdirFailed(rc.err)
       THEN /\ stack' = << [node |-> cur.node, path |-> cur.path] >> \o stack
            /\ pc' = "visit"
            /\ UNCHANGED result
       ELSE /\ stack' = ChildEntries(cur) \o stack
            /\ pc' = "visit"
            /\ UNCHANGED result
    /\ UNCHANGED << localPath, remotePath, local, remote, cur, dstPath, wg, wpc,
                    defers, cfRes, rc, sessions, srcOpen, dstOpen, calls, faults,
                    faulted, last, cancelRequested >>

\* RunCommand has returned to the callback: the error ends the walk,
\* otherwise the walk goes into the directory
AfterMkdir ==
    /\ pc = "rc_ret"
    /\ rc.caller = "CopyDir"
    /\ err' = rc.err
    /\ log' = Append(log, LogEv("end", "mkdir", cur, dstPath, rc.err = NilErr))
    /\ IF MkdirFailed(rc.err)
       THEN /\ result' = rc.err
            /\ pc' = "ret"
            /\ stack' = << >>
       ELSE /\ stack' = ChildEntries(cur) \o stack
            /\ pc' = "visit"
            /\ UNCHANGED result
    /\ UNCHANGED << localPath, remotePath, local, remote, cur, dstPath, wg, wpc,
                    defers, cfRes, rc, sessions, srcOpen, dstOpen, calls, faults,
                    faulted, last, cancelRequested >>

\* the callback reading err without wg.Wait()
WaitDoneNoWait ==
    /\ pc = "wait"
    /\ IF CopyFailed(err)
       THEN /\ result' = err
            /\ pc' = "ret"
            /\ stack' = << >>
       ELSE /\ pc' = "visit"
            /\ UNCHANGED << result, stack >>
    /\ UNCHANGED << localPath, remotePath, local, remote, cur, dstPath, err, wg,
                    wpc, defers, cfRes, rc, sessions, srcOpen, dstOpen, calls,
                    faults, faulted, log, last, cancelRequested >>

\* wg.Wait() has returned: the callback reads err
WaitDone ==
    /\ pc = "wait"
    /\ wg = 0
    /\ IF CopyFailed(err)
       THEN /\ result' = err
            /\ pc' = "ret"
            /\ stack' = << >>
       ELSE /\ pc' = "visit"
            /\ UNCHANGED << result, stack >>
    /\ UNCHANGED << localPath, remotePath, local, remote, cur, dstPath, err, wg,
                    wpc, defers, cfRes, rc, sessions, srcOpen, dstOpen, calls,
                    faults, faulted, log, last, cancelRequested >>

\* CopyDir returns what filepath.Walk returned
CopyDirReturn ==
    /\ pc = "ret"
    /\ last' = [op |-> "CopyDir", err |-> result, out |-> << >>,
                remote |-> remote, faulted |-> faulted]
    /\ pc' = "idle"
    /\ cancelRequested' = FALSE
    /\ UNCHANGED << localPath, remotePath, local, remote, stack, cur, dstPath,
                    err, wg, wpc, defers, cfRes, rc, sessions, srcOpen, dstOpen,
                    result, calls, faults, faulted, log >>

(***************************************************************************)
(* CopyFile, run by the goroutine the callback starts.                     *)
(***************************************************************************)
\* os.Open(localPath); defer src.Close()
CfOpen ==
    /\ wpc = "cf_open"
    /\ IF CanOpen(cur.node)
       THEN /\ srcOpen' = srcOpen + 1
            /\ defers' = << "src" >>
            /\ wpc' = "cf_create"
            /\ UNCHANGED cfRes
       ELSE /\ cfRes' = MkErr("open", cur.path, 0)
            /\ wpc' = "cf_ret"
            /\ UNCHANGED << srcOpen, defers >>
    /\ UNCHANGED << localPath, remotePath, local, remote, pc, stack, cur,
                    dstPath, err, wg, rc, sessions, dstOpen, result, calls,
                    faults, faulted, log, last, cancelRequested >>

\* c.client.Create(remotePath); defer dst.Close()
CfCreate ==
    /\ wpc = "cf_create"
    /\ \/ /\ IF CanCreate(remote, dstPath)
             THEN /\ remote' = RemoteWrite(remote, dstPath, << >>)
                  /\ dstOpen' = dstOpen + 1
                  /\ defers' = << "dst" >> \o defers
                  /\ wpc' = "cf_copy"
                  /\ UNCHANGED cfRes
             ELSE /\ cfRes' = MkErr("create", << >>, 0)
                  /\ wpc' = "cf_defer"
                  /\ UNCHANGED << remote, dstOpen, defers >>
          /\ UNCHANGED << faults, faulted >>
       \/ /\ faults < MaxFaults
          /\ faults' = faults + 1
          /\ faulted' = TRUE
          /\ cfRes' = MkErr("transport", << >>, 0)
          /\ wpc' = "cf_defer"
          /\ UNCHANGED << remote, dstOpen, defers >>
    /\ UNCHANGED << localPath, remotePath, local, pc, stack, cur, dstPath, err,
                    wg, rc, sessions, srcOpen, result, calls, log, last,
                    cancelRequested >>

\* io.Copy(dst, src)
CfCopy ==
    /\ wpc = "cf_copy"
    /\ \/ /\ IF CanRead(cur.node)
             THEN /\ remote' = RemoteWrite(remote, dstPath, local[cur.node].data)
                  /\ cfRes' = NilErr
             ELSE /\ cfRes' = MkErr("copy", << >>, 0)
                  /\ UNCHANGED remote
          /\ UNCHANGED << faults, faulted >>
       \/ /\ faults < MaxFaults
          /\ CanRead(cur.node)
          /\ faults' = faults + 1
          /\ faulted' = TRUE
          /\ \E d \in Prefixes(local[cur.node].data) :
                remote' = RemoteWrite(remote, dstPath, d)
          /\ cfRes' = MkErr("transport", << >>, 0)
    /\ wpc' = "cf_defer"
    /\ UNCHANGED << localPath, remotePath, local, pc, stack, cur, dstPath, err,
                    wg, defers, rc, sessions, srcOpen, dstOpen, result, calls,
                    log, last, cancelRequested >>

Count(seq, x) == Cardinality({i \in DOMAIN seq : seq[i] = x})

\* the return with dst.Close() alone deferred
CfDeferDstOnly ==
    /\ wpc = "cf_defer"
    /\ dstOpen' = dstOpen - Count(defers, "dst")
    /\ defers' = << >>
    /\ wpc' = "cf_ret"
    /\ UNCHANGED << localPath, remotePath, local, remote, pc, stack, cur,
                    dstPath, err, wg, cfRes, rc, sessions, srcOpen, result,
                    calls, faults, faulted, log, last, cancelRequested >>

\* the deferred dst.Close() and src.Close(), then the return
CfDefer ==
    /\ wpc = "cf_defer"
    /\ dstOpen' = dstOpen - Count(defers, "dst")
    /\ srcOpen' = srcOpen - Count(defers, "src")
    /\ defers' = << >>
    /\ wpc' = "cf_ret"
    /\ UNCHANGED << localPath, remotePath, local, remote, pc, stack, cur,
                    dstPath, err, wg, cfRes, rc, sessions, result, calls, faults,
                    faulted, log, last, cancelRequested >>

\* the result of CopyFile kept in a variable of the goroutine's own
GoStoreShadowed ==
    /\ wpc = "cf_ret"
    /\ wpc' = "go_done"
    /\ log' = Append(log, LogEv("end", "copy", cur, dstPath, cfRes = NilErr))
    /\ UNCHANGED << localPath, remotePath, local, remote, pc, stack, cur,
                    dstPath, err, wg, defers, cfRes, rc, sessions, srcOpen,
                    dstOpen, result, calls, faults, faulted, last,
                    cancelRequested >>

\* the goroutine stores CopyFile's result in the err of the callback
GoStore ==
    /\ wpc = "cf_ret"
    /\ err' = cfRes
    /\ wpc' = "go_done"
    /\ log' = Append(log, LogEv("end", "copy", cur, dstPath, cfRes = NilErr))
    /\ UNCHANGED << localPath, remotePath, local, remote, pc, stack, cur,
                    dstPath, wg, defers, cfRes, rc, sessions, srcOpen, dstOpen,
                    result, calls, faults, faulted, last, cancelRequested >>

\* the goroutine's deferred wg.Done(), run when its function returns
GoDone ==
    /\ wpc = "go_done"
    /\ wg' = wg - 1
    /\ wpc' = "none"
    /\ cfRes' = NilErr
    /\ UNCHANGED << localPath, remotePath, local, remote, pc, stack, cur,
                    dstPath, err, defers, rc, sessions, srcOpen, dstOpen, result,
                    calls, faults, faulted, log, last, cancelRequested >>

Next ==
    \/ CallCopyDir
    \/ CallRunCommand
    \/ Cancel
    \/ RcNewSession
    \/ RcOutput
    \/ RcClose
    \/ RunCommandReturn
    \/ WalkRoot
    \/ Visit
    \/ AfterMkdir
    \/ WaitDone
    \/ CopyDirReturn
    \/ CfOpen
    \/ CfCreate
    \/ CfCopy
    \/ CfDefer
    \/ GoStore
    \/ GoDone

Spec == Init /\ [][Next]_vars

(***************************************************************************)
(* Properties.                                                             *)
(***************************************************************************)
\* the remote directory a remote path lies in
ParentPath(p) ==
    LET c == Comps(p) IN PathOf(SubSeq(c, 1, Len(c) - 1))

IsBegin(ev, kind) == ev.ev = "begin" /\ ev.kind = kind
IsEnd(ev, kind) == ev.ev = "end" /\ ev.kind = kind

\* C1: in a CopyDir call, a copy of a file of the tree begins only after the
\* `mkdir -p` of the remote directory the file goes to has returned without
\* an error, and never when a `mkdir -p` of that directory has failed.
C1_MkdirBeforeCopy ==
    \A i \in DOMAIN log :
        (IsBegin(log[i], "copy") /\ log[i].node # "root") =>
            /\ \E j \in 1..(i - 1) :
                  /\ IsEnd(log[j], "mkdir")
                  /\ log[j].ok
                  /\ log[j].dst = ParentPath(log[i].dst)
            /\ ~\E j \in DOMAIN log :
                  /\ IsEnd(log[j], "mkdir")
                  /\ ~log[j].ok
                  /\ log[j].dst = ParentPath(log[i].dst)

\* a copy has begun for a file two directories below the root
C1_Witness ==
    \E i \in DOMAIN log : IsBegin(log[i], "copy") /\ log[i].node = "g"

\* the names on the way from the root of the tree to a node
RECURSIVE NamesTo(_)
NamesTo(n) ==
    IF n = "root" THEN << >> ELSE Append(NamesTo(ParentOf[n]), local[n].name)

\* remoteRoot, normalised, followed by the names from the root to the node,
\* one separator between two elements
ExpectedDst(n) ==
    LET base == Clean(remotePath)
        rest == StrJoin(NamesTo(n), << Sep >>)
    IN  IF n = "root" THEN base
        ELSE IF base = << Sep >> THEN base \o rest
        ELSE base \o << Sep >> \o rest

NoDoubleSep(p) == \A k \in 1..(Len(p) - 1) : ~(p[k] = Sep /\ p[k + 1] = Sep)

InRunCommandOfCopyDir ==
    pc \in {"rc_new", "rc_out", "rc_defer", "rc_ret"} /\ rc.caller = "CopyDir"

\* C2: the remote path CopyDir uses for an entry, in the mkdir command and as
\* the destination of the copy, is the normalised remoteRoot followed by the
\* entry's path relative to localRoot, without a doubled or a missing
\* separator; the root entry maps to the normalised remoteRoot.
C2_PathMapping ==
    /\ \A i \in DOMAIN log :
          /\ log[i].dst = ExpectedDst(log[i].node)
          /\ NoDoubleSep(log[i].dst)
    /\ (InRunCommandOfCopyDir \/ pc = "wait") => dstPath = ExpectedDst(cur.node)
    /\ InRunCommandOfCopyDir => rc.cmd = MkdirCmd(ExpectedDst(cur.node))

\* an entry two levels down is mapped while a root path is not normalised
C2_Witness ==
    /\ \E i \in DOMAIN log : log[i].node = "b"
    /\ remotePath # Clean(remotePath)

LastFailed ==
    /\ log # << >>
    /\ log[Len(log)].ev = "end"
    /\ ~log[Len(log)].ok

\* what a finished remote operation left on the remote side
StillThere(ev) ==
    IF ev.kind = "mkdir"
    THEN LET c == ShellParse(MkdirCmd(ev.dst)).cmds
         IN  \A i \in DOMAIN c : \A k \in 3..Len(c[i]) :
                 IsRemoteDir(remote, RemoteAbs(c[i][k]))
    ELSE IsRemoteFile(remote, RemoteAbs(ev.dst))

RootUnreadable ==
    \/ ~local["root"].present
    \/ local["root"].kind = "dir" /\ ~local["root"].readable

\* C3: CopyDir stops at the first error.  A failed mkdir or copy is the last
\* remote operation of the call and its error is what CopyDir returns; an
\* entry that cannot be read gets no remote operation and its error is
\* returned; what the operations before it created is still on the remote
\* side; an unreadable root gives an error and no remote operation at all.
C3_StopsAtFirstError ==
    /\ \A i \in DOMAIN log :
          /\ (log[i].ev = "end" /\ ~log[i].ok) => i = Len(log)
          /\ (log[i].ev = "end" /\ log[i].ok) => StillThere(log[i])
    /\ (LastFailed /\ InCopyDir) => pc \in {"wait", "ret"}
    /\ (LastFailed /\ pc = "ret") =>
          result = err /\ result # NilErr /\ stack = << >>
    /\ (pc = "ret" /\ result.kind \in {"lstat", "readdir"}) =>
          /\ stack = << >>
          /\ \A i \in DOMAIN log : log[i].lpath # result.local
    /\ (pc = "ret" /\ RootUnreadable) => result # NilErr /\ log = << >>
    /\ (pc = "ret" /\ result # NilErr) =>
          LastFailed \/ result.kind \in {"lstat", "readdir"}

\* CopyDir returns an error after an entry was transferred and before
\* another entry of the tree was visited
C3_Witness ==
    /\ pc = "ret"
    /\ result # NilErr
    /\ \E i \in DOMAIN log : log[i].ev = "end" /\ log[i].ok
    /\ \E n \in Slot :
          local[n].present /\ \A i \in DOMAIN log : log[i].node # n

\* C4: when the copy of an entry fails, every entry enumerated before it has
\* been transferred and the error CopyDir returns names the failing entry's
\* local path and remote path.
C4_ErrorIdentifiesEntry ==
    (pc = "ret" /\ LastFailed /\ log[Len(log)].kind = "copy") =>
        /\ \A i \in 1..(Len(log) - 1) : log[i].ev = "end" => log[i].ok
        /\ result.local = log[Len(log)].lpath
        /\ result.remote = log[Len(log)].dst

\* C5: a session RunCommand acquired is closed when RunCommand returns, on
\* the success path, on a non-zero exit and on a transport error; between
\* calls, and in CopyDir outside RunCommand, no session is open.
C5_SessionsClosed ==
    /\ pc \notin {"rc_out", "rc_defer"} => sessions = 0
    /\ pc \in {"rc_out", "rc_defer"} => sessions = 1 /\ rc.opened

\* RunCommand has returned a transport error after it acquired a session
C5_Witness ==
    pc = "rc_ret" /\ rc.opened /\ rc.err.kind = "transport"

\* C6: when CopyFile has returned, on any path, the local file and the
\* remote file it opened are closed.
C6_HandlesReleased ==
    /\ wpc \in {"cf_ret", "none", "cf_open"} => srcOpen = 0 /\ dstOpen = 0
    /\ wpc \in {"cf_create", "cf_copy", "cf_defer"} => srcOpen = 1
    /\ wpc = "cf_copy" => dstOpen = 1

\* CopyFile has returned the error of the remote create, which it met with
\* the local file open
C6_Witness ==
    wpc = "cf_ret" /\ cfRes.kind = "create" /\ CanOpen(cur.node)

\* C7: a CopyDir call that follows a CopyDir call with the same arguments,
\* neither hit by a transport fault, leaves the remote side as the first
\* left it and returns what the first returned: it does not fail on the
\* directories and files the first call created.
C7_Idempotent ==
    (pc = "ret" /\ last.op = "CopyDir" /\ ~last.faulted /\ ~faulted) =>
        /\ remote = last.remote
        /\ result = last.err

\* the second of two successful CopyDir calls returns, with a file copied
C7_Witness ==
    /\ pc = "ret"
    /\ last.op = "CopyDir"
    /\ ~last.faulted
    /\ ~faulted
    /\ result = NilErr
    /\ \E r \in remote.files : r.data = Hi

\* C8: once the caller has cancelled a running CopyDir, no mkdir and no copy
\* is started, and CopyDir returns a Cancelled error.
C8_ReturnsCancelled ==
    cancelRequested =>
        /\ pc # "rc_new"
        /\ wpc # "cf_open"
        /\ pc = "ret" => result.kind = "cancelled"

\* C9: when CopyDir returns without an error, every directory of the local
\* tree is a remote directory at its mapped path and every regular file is
\* a remote file there with the same content.
C9_RemoteMatchesLocal ==
    (pc = "ret" /\ result = NilErr) =>
        \A n \in Node :
            /\ (local[n].present /\ local[n].kind = "dir") =>
                  IsRemoteDir(remote, ExpectedDst(n))
            /\ (local[n].present /\ local[n].kind = "file") =>
                  [path |-> ExpectedDst(n), data |-> local[n].data]
                      \in remote.files

\* C10: the mkdir command CopyDir sends reads, under the shell's quoting
\* rules, as the words mkdir, -p and the remote path of the directory.
C10_MkdirQuoted ==
    InRunCommandOfCopyDir =>
        ShellParse(rc.cmd) =
            [ok |-> TRUE, cmds |-> << << WMkdir, WDashP, dstPath >> >>]

\* C11: RunCommand tells a non-zero exit from a transport failure, and on a
\* non-zero exit it hands back the exit status together with the output the
\* command produced.
C11_FailureKinds ==
    pc = "rc_ret" =>
        /\ rc.err.kind = "exit" =>
              /\ rc.err.code # 0
              /\ rc.out = RemoteShell(remote, rc.cmd).out
        /\ rc.err.kind \in {"transport", "connection"} => faulted
        /\ rc.err.kind \in {"nil", "exit", "transport", "connection"}

\* the remote paths CopyDir maps the entries of the local tree to
MappedDst(kinds) ==
    {ExpectedDst(n) : n \in {m \in Node : local[m].present /\ local[m].kind \in kinds}}

\* p is q or a directory above q
IsAbove(p, q) ==
    LET pc_ == Comps(p)
        qc == Comps(q)
    IN  Len(pc_) <= Len(qc) /\ SubSeq(qc, 1, Len(pc_)) = pc_

\* C12: during and after a CopyDir call every remote directory and file
\* that existed when the call began still exists; a file that existed has
\* other content only if a local regular file maps to it; and what is new
\* on the remote side is a mapped destination or a directory above one.
C12_NeverDeletes ==
    InCopyDir =>
        /\ last.remote.dirs \subseteq remote.dirs
        /\ \A f \in last.remote.files :
              /\ IsRemoteFile(remote, f.path)
              /\ f \notin remote.files => f.path \in MappedDst({"file"})
        /\ \A d \in remote.dirs \ last.remote.dirs :
              \E q \in MappedDst({"dir", "file", "symlink"}) : IsAbove(d, q)
        /\ \A f \in remote.files :
              ~IsRemoteFile(last.remote, f.path) =>
                  f.path \in MappedDst({"file", "symlink"})

\* an earlier event of the log is the successful return of the mkdir of node n
MkdirDoneBefore(i, n) ==
    \E j \in 1..(i - 1) :
        IsEnd(log[j], "mkdir") /\ log[j].ok /\ log[j].node = n

\* C13: directories are created parent before child over the whole tree.  In
\* a CopyDir call the mkdir or the copy of an entry other than the root begins
\* only after the `mkdir -p` of its parent directory has returned without an
\* error, that mkdir was of the directory right above the entry's remote path,
\* and the first remote operation of the call is the mkdir of the remote root.
C13_ParentBeforeChild ==
    /\ \A i \in DOMAIN log :
          (log[i].ev = "begin" /\ log[i].node # "root") =>
              /\ MkdirDoneBefore(i, ParentOf[log[i].node])
              /\ MkdirDoneBefore(i, "root")
              /\ \E j \in 1..(i - 1) :
                    /\ IsEnd(log[j], "mkdir") /\ log[j].ok
                    /\ log[j].dst = ParentPath(log[i].dst)
    /\ log # << >> =>
          /\ log[1].ev = "begin"
          /\ log[1].node = "root"
          /\ log[1].dst = Clean(remotePath)
          /\ local["root"].kind = "dir" => log[1].kind = "mkdir"
    /\ (pc = "rc_out" /\ rc.caller = "CopyDir" /\ cur.node # "root") =>
          MkdirDoneBefore(Len(log), ParentOf[cur.node])

\* the mkdir of a directory two levels below the root has begun
C13_Witness ==
    \E i \in DOMAIN log :
        /\ IsBegin(log[i], "mkdir")
        /\ log[i].node # "root"
        /\ ParentOf[log[i].node] # "root"
        /\ pc = "rc_out"
        /\ i = Len(log)

\* C14: a symbolic link met during the walk is skipped.  No mkdir and no copy
\* is begun for it, the copy goroutine never opens it (it is not followed),
\* and CopyDir does not return an error that comes from it.
C14_SymlinkSkipped ==
    InCopyDir =>
        /\ \A i \in DOMAIN log : local[log[i].node].kind # "symlink"
        /\ wpc # "none" => local[cur.node].kind # "symlink"
        /\ (pc = "ret" /\ result # NilErr /\ ~faulted) =>
              \A n \in Node : local[n].present => local[n].kind # "symlink"

\* the copies of the call that have begun and have not ended
InFlight ==
    {i \in DOMAIN log :
        /\ IsBegin(log[i], "copy")
        /\ ~\E j \in (i + 1)..Len(log) :
              IsEnd(log[j], "copy") /\ log[j].node = log[i].node}

\* C15: at most one file copy is in flight at any moment.  While the copy
\* goroutine runs, the callback is blocked in wg.Wait(): the walk visits no
\* entry, no RunCommand session is open, and the next event after the begin of
\* a copy is the end of that copy.
C15_OneCopyInFlight ==
    /\ Cardinality(InFlight) <= 1
    /\ wg \in {0, 1}
    /\ wg = 1 <=> wpc # "none"
    /\ wpc # "none" => pc = "wait" /\ sessions = 0
    /\ wpc \notin {"none", "go_done"} <=> InFlight # {}
    /\ \A i \in 1..(Len(log) - 1) :
          IsBegin(log[i], "copy") =>
              IsEnd(log[i + 1], "copy") /\ log[i + 1].node = log[i].node

\* a copy is writing the remote file while entries of the tree are still to
\* be visited
C15_Witness ==
    wpc = "cf_copy" /\ pc = "wait" /\ stack # << >> /\ InFlight # {}

AllEndsOk == \A i \in DOMAIN log : log[i].ev = "end" => log[i].ok

\* C16: a copy failure in the goroutine is never lost.  When wg.Wait() can
\* return, the goroutine has already stored the result of CopyFile in err, so
\* the callback reads the result of the copy just made; a failed copy makes
\* CopyDir return that error, and when every mkdir and copy of the call
\* succeeded CopyDir returns nil unless the walk itself could not read a
\* local entry.
C16_CopyErrorNotLost ==
    /\ wpc \in {"cf_open", "cf_create", "cf_copy", "cf_defer", "cf_ret"} =>
          pc = "wait" /\ wg = 1
    /\ (pc = "wait" /\ wg = 0) =>
          /\ wpc = "none"
          /\ IsEnd(log[Len(log)], "copy")
          /\ log[Len(log)].node = cur.node
          /\ err = NilErr <=> log[Len(log)].ok
    /\ (pc = "ret" /\ \E i \in DOMAIN log : IsEnd(log[i], "copy") /\ ~log[i].ok) =>
          /\ result # NilErr
          /\ result = err
          /\ result.kind \in {"open", "create", "copy", "transport"}
    /\ (pc = "ret" /\ AllEndsOk) =>
          result = NilErr \/ result.kind \in {"lstat", "readdir"}
    /\ (pc = "ret" /\ result = NilErr) => AllEndsOk

\* CopyDir is about to return the error io.Copy gave the goroutine
C16_Witness ==
    /\ pc = "ret"
    /\ result.kind = "copy"
    /\ IsEnd(log[Len(log)], "copy")
    /\ ~log[Len(log)].ok
    /\ wpc = "none"

Begins(n) == {i \in DOMAIN log : log[i].ev = "begin" /\ log[i].node = n}
Ends(n) == {i \in DOMAIN log : log[i].ev = "end" /\ log[i].node = n}

\* the entries the walk comes to: those whose directories above are all there
RECURSIVE Walked(_)
Walked(n) ==
    /\ local[n].present
    /\ n # "root" => IsDir(ParentOf[n]) /\ Walked(ParentOf[n])

\* C17: in one CopyDir call an entry gets one task and the task is tried at
\* most once.  No entry has two mkdirs or two copies begun or ended, a
\* directory's task is a mkdir and any other entry's task is a copy, nothing
\* is begun after a task has failed, and when the call succeeds every entry
\* of the tree has had exactly one task, which succeeded.
C17_OneTaskNoRetry ==
    /\ \A n \in Node :
          /\ Cardinality(Begins(n)) <= 1
          /\ Cardinality(Ends(n)) <= Cardinality(Begins(n))
    /\ \A i \in DOMAIN log :
          /\ log[i].kind = "mkdir" <=> local[log[i].node].kind = "dir"
          /\ Walked(log[i].node)
          /\ (log[i].ev = "end" /\ ~log[i].ok) =>
                \A j \in DOMAIN log : log[j].ev = "begin" => j < i
    /\ (InCopyDir /\ pc \in {"rc_new", "rc_out", "rc_defer", "rc_ret", "wait"}) =>
          Cardinality(Begins(cur.node)) = 1
    /\ (pc = "ret" /\ result = NilErr) =>
          \A n \in Node :
              Walked(n) =>
                  /\ Cardinality(Begins(n)) = 1
                  /\ \E i \in Ends(n) : log[i].ok

\* CopyDir is about to return the error of a mkdir, with entries of the
\* tree never begun
C17_Witness ==
    /\ pc = "ret"
    /\ LastFailed
    /\ log[Len(log)].kind = "mkdir"
    /\ Cardinality(Ends(log[Len(log)].node)) = 1
    /\ \E n \in Node : Walked(n) /\ Begins(n) = {}

====
